---- MODULE Spec2Model ----
(***************************************************************************)
(* Model of the weather CLI: settings loading, the provider registry and   *)
(* its construction from settings, the WeatherApp facade, the two concrete *)
(* providers and the configure/get commands.                               *)
(*                                                                         *)
(* Strings that are lower-cased, upper-cased or sorted (provider names,    *)
(* environment variable names) are sequences of ASCII codes, so that the   *)
(* conversions and the ordering are computed.  Strings that are only       *)
(* compared for equality or emptiness (API keys, locations) are TLA+       *)
(* strings.  Option<T> is a set with at most one element.                  *)
(***************************************************************************)
EXTENDS Integers, Sequences, FiniteSets, TLC

VARIABLES
    pc,         \* position of the process: unit | start | loaded | building | ready | awaiting | done | failed
    env,        \* process environment: variable name -> Option<String>
    file,       \* the settings file on disk
    settings,   \* config::Settings held by the process
    registry,   \* ProviderRegistry.providers: name -> provider
    pending,    \* build_registry: keys of settings.providers not yet visited
    startErr,   \* error main returned before dispatching a command (Option)
    calls,      \* log of register(name, provider) calls on the registry
    lookups,    \* names passed to ProviderRegistry::get by the application
    got,        \* result of the last direct ProviderRegistry::get
    listed,     \* result of the last ProviderRegistry::list_providers
    call,       \* the WeatherApp::run call of this process (Option)
    requests,   \* HTTP requests issued by this process, in order
    out,        \* what the command printed / persisted (Option)
    runs,       \* number of processes started so far
    tasks       \* concurrent callers of one shared WeatherApp: caller -> task

vars == <<pc, env, file, settings, registry, pending, startErr, calls,
          lookups, got, listed, call, requests, out, runs, tasks>>

----------------------------------------------------------------------------
(* Bounds *)

\* register calls made by a test harness on one registry
MaxCalls == 3
\* process invocations sharing one settings file
MaxRuns == 2
\* callers sharing one WeatherApp concurrently
MaxCallers == 2

----------------------------------------------------------------------------
(* Option<T> *)

None == {}
Some(x) == {x}
IsSome(o) == o # {}
Unwrap(o) == CHOOSE x \in o : TRUE

----------------------------------------------------------------------------
(* Strings as sequences of ASCII codes *)

\* "openweather"
OPENWEATHER == <<111, 112, 101, 110, 119, 101, 97, 116, 104, 101, 114>>
\* "weatherapi"
WEATHERAPI == <<119, 101, 97, 116, 104, 101, 114, 97, 112, 105>>
\* "WeatherApi"
WeatherApiMixed == <<87, 101, 97, 116, 104, 101, 114, 65, 112, 105>>
\* "mock"
MOCK == <<109, 111, 99, 107>>
\* "x"
X == <<120>>
\* ""
EMPTY == <<>>
\* "_API_KEY"
API_KEY_SUFFIX == <<95, 65, 80, 73, 95, 75, 69, 89>>

\* str::to_lowercase on ASCII
to_lowercase(s) ==
    [i \in 1..Len(s) |-> IF s[i] \in 65..90 THEN s[i] + 32 ELSE s[i]]

\* str::to_uppercase on ASCII
to_uppercase(s) ==
    [i \in 1..Len(s) |-> IF s[i] \in 97..122 THEN s[i] - 32 ELSE s[i]]

\* Ord for String: byte-wise lexicographic, a proper prefix is smaller
RECURSIVE StrLess(_, _)
StrLess(a, b) ==
    IF b = <<>> THEN FALSE
    ELSE IF a = <<>> THEN TRUE
    ELSE IF a[1] # b[1] THEN a[1] < b[1]
    ELSE StrLess(Tail(a), Tail(b))

----------------------------------------------------------------------------
(* HashMap<K, V> as a function whose domain is the key set *)

EmptyMap == [k \in {} |-> {}]

\* HashMap::insert: adds the key or replaces its value
MapInsert(m, k, v) ==
    [x \in (DOMAIN m) \cup {k} |-> IF x = k THEN v ELSE m[x]]

\* HashMap::get
MapGet(m, k) == IF k \in DOMAIN m THEN Some(m[k]) ELSE None

----------------------------------------------------------------------------
(* ProviderRegistry *)

\* ProviderRegistry::new
RegistryNew == EmptyMap

\* register that keeps the entry already present
RegistryRegisterKeepFirst(reg, name, provider) ==
    IF name \in DOMAIN reg THEN reg ELSE MapInsert(reg, name, provider)

\* ProviderRegistry::register: logs when the key exists, then inserts
RegistryRegister(reg, name, provider) == MapInsert(reg, name, provider)

\* ProviderRegistry::get
RegistryGet(reg, name) == MapGet(reg, name)

\* a get that takes the entry out of the map
RegistryAfterGetRemoves(reg, name) ==
    [k \in (DOMAIN reg) \ {name} |-> reg[k]]

\* ProviderRegistry::get borrows the registry (&self) and clones the Arc:
\* the map after the call is the map before it
RegistryAfterGet(reg, name) == reg

\* the orders in which HashMap::keys may yield the keys of a map
KeyOrders(m) ==
    {o \in [1..Cardinality(DOMAIN m) -> DOMAIN m] :
        \A i, j \in DOMAIN o : i # j => o[i] # o[j]}

\* one step of the sort: x put before the first element that is not smaller
RECURSIVE SortInsert(_, _)
SortInsert(x, s) ==
    IF s = <<>> THEN <<x>>
    ELSE IF StrLess(s[1], x) THEN <<s[1]>> \o SortInsert(x, Tail(s))
    ELSE <<x>> \o s

\* Vec<String>::sort: ascending by Ord for String
RECURSIVE sort(_)
sort(s) == IF s = <<>> THEN <<>> ELSE SortInsert(s[1], sort(Tail(s)))

\* list_providers without the sort
RegistryListUnsorted(reg, order) == order

\* ProviderRegistry::list_providers: the keys, in the order the map yields
\* them, then sorted
RegistryList(reg, order) == sort(order)

----------------------------------------------------------------------------
(* Result<T, E> and errors *)

Ok(v) == [ok |-> TRUE, val |-> v]
Err(e) == [ok |-> FALSE, err |-> e]
\* a panic unwinding out of the call instead of a returned value
Panic(m) == [ok |-> FALSE, panic |-> m]
IsOk(r) == r.ok
IsErr(r) == ~r.ok /\ "err" \in DOMAIN r
IsPanic(r) == "panic" \in DOMAIN r

\* ProviderError, with the argument of its variant
ProviderError(kind, arg) == [kind |-> kind, arg |-> arg]

\* impl Display for ProviderError (thiserror attributes): the fragments of
\* the message, in order
ProviderErrorDisplay(e) ==
    CASE e.kind = "Request"         -> <<"API request failed: ", e.arg>>
      [] e.kind = "InvalidApiKey"   -> <<"API key is missing or invalid for ", e.arg>>
      [] e.kind = "InvalidLocation" -> <<"Location '", e.arg, "' is invalid or not found">>
      [] e.kind = "ParseDateTime"   -> <<"Failed to parse datetime: ", e.arg>>
      [] OTHER                      -> <<"An unexpected error occurred: ", e.arg>>

\* AppError, with the message it carries
AppError(kind, msg) == [kind |-> kind, msg |-> msg]

----------------------------------------------------------------------------
(* config.rs *)

\* "DEFAULT_PROVIDER"
DEFAULT_PROVIDER_VAR ==
    <<68, 69, 70, 65, 85, 76, 84, 95, 80, 82, 79, 86, 73, 68, 69, 82>>

\* dotenvy::var: the value of an environment variable, if set
var(e, name) == IF name \in DOMAIN e THEN e[name] ELSE None

\* Settings::get_api_key: the environment variable <NAME>_API_KEY wins,
\* else the api_key of the settings entry, else nothing
get_api_key(s, e, provider_name) ==
    LET env_var == to_uppercase(provider_name) \o API_KEY_SUFFIX
    IN  IF IsSome(var(e, env_var)) THEN var(e, env_var)
        ELSE IF provider_name \in DOMAIN s.providers
             THEN Some(s.providers[provider_name])
             ELSE None

\* load_settings: default "weatherapi", then the file, then the
\* DEFAULT_PROVIDER override; deserializing into Settings needs the
\* providers table, which has no default
load_settings(f, e) ==
    LET fromDefault == WEATHERAPI
        fromFile == IF IsSome(f.default_provider)
                    THEN Unwrap(f.default_provider) ELSE fromDefault
        merged == IF IsSome(var(e, DEFAULT_PROVIDER_VAR))
                  THEN Unwrap(var(e, DEFAULT_PROVIDER_VAR)) ELSE fromFile
    IN  IF f.providers = None
        THEN Err(AppError("Config", <<"Failed to load settings: ", "missing field providers">>))
        ELSE Ok([default_provider |-> merged, providers |-> Unwrap(f.providers)])

\* save_settings: the file becomes the serialized Settings
save_settings(s) ==
    [default_provider |-> Some(s.default_provider), providers |-> Some(s.providers)]

----------------------------------------------------------------------------
(* Provider construction *)

WEATHER_API_URL == "https://api.weatherapi.com"
OPEN_WEATHER_API_URL == "https://api.openweathermap.org/"

\* WeatherApi::new: only an absent key is rejected
WeatherApiNew(api_key) ==
    IF api_key = None
    THEN Err(ProviderError("InvalidApiKey", "WeatherApi requires API_KEY"))
    ELSE Ok([kind |-> "weatherapi", api_key |-> Unwrap(api_key),
             base_url |-> WEATHER_API_URL])

\* OpenWeather::new as build_registry calls it (Option<String> in, Result
\* out).  The file in the repository holds an earlier String -> Self
\* constructor, so the fallible one follows the documented contract: an
\* absent or empty key is rejected.
OpenWeatherNew(api_key) ==
    IF api_key = None \/ api_key = Some("")
    THEN Err(ProviderError("InvalidApiKey", "OpenWeather requires API_KEY"))
    ELSE Ok([kind |-> "openweather", api_key |-> Unwrap(api_key),
             base_url |-> OPEN_WEATHER_API_URL])

----------------------------------------------------------------------------
(* build_registry *)

\* build_registry skipping a provider whose construction failed
BuildEntrySkipOnError(s, e, name) ==
    IF name = OPENWEATHER THEN
        LET r == OpenWeatherNew(get_api_key(s, e, name))
        IN  IF r.ok THEN Ok(Some(r.val)) ELSE Ok(None)
    ELSE IF name = WEATHERAPI THEN
        LET r == WeatherApiNew(get_api_key(s, e, name))
        IN  IF r.ok THEN Ok(Some(r.val)) ELSE Ok(None)
    ELSE Ok(None)

\* the match arms of build_registry: what visiting one settings key yields
\* Ok(Some(provider)) to register, Ok(None) to skip, Err to abort the build
BuildEntry(s, e, name) ==
    IF name = OPENWEATHER THEN
        LET r == OpenWeatherNew(get_api_key(s, e, name))
        IN  IF r.ok THEN Ok(Some(r.val))
            ELSE Err(AppError("MissingApiKey", ProviderErrorDisplay(r.err)))
    ELSE IF name = WEATHERAPI THEN
        LET r == WeatherApiNew(get_api_key(s, e, name))
        IN  IF r.ok THEN Ok(Some(r.val))
            ELSE Err(AppError("MissingApiKey", ProviderErrorDisplay(r.err)))
    ELSE Ok(None)

\* build_registry without the emptiness check
BuildResultAllowEmpty(reg, order) == Ok(reg)

\* the check after the loop
BuildResult(reg, order) ==
    IF RegistryList(reg, order) = <<>>
    THEN Err(AppError("MissingApiKey", <<"No valid providers configured">>))
    ELSE Ok(reg)

----------------------------------------------------------------------------
(* Vendor responses.  Numbers with one decimal are held in tenths.  A       *)
(* response is [transport, status, body]; a body that does not deserialize  *)
(* into the provider's response type has shape "invalid".                   *)

\* timestamp text in the "YYYY-MM-DD HH:MM" layout
StampText(y, mo, d, h, mi) ==
    [layout |-> "ymd_hm", y |-> y, mo |-> mo, d |-> d, h |-> h, mi |-> mi]
\* timestamp text in another layout
OtherStampText == [layout |-> "rfc3339"]

DaysInMonth(y, mo) ==
    IF mo \in {4, 6, 9, 11} THEN 30
    ELSE IF mo = 2
         THEN (IF (y % 4 = 0 /\ y % 100 # 0) \/ y % 400 = 0 THEN 29 ELSE 28)
         ELSE 31

\* parse_local_datetime: NaiveDateTime::parse_from_str(.., "%Y-%m-%d %H:%M")
\* read as UTC; any failure becomes ParseDateTime
parse_local_datetime(t) ==
    IF /\ t.layout = "ymd_hm"
       /\ t.mo \in 1..12
       /\ t.d \in 1..DaysInMonth(t.y, t.mo)
       /\ t.h \in 0..23
       /\ t.mi \in 0..59
    THEN Ok([y |-> t.y, mo |-> t.mo, d |-> t.d, h |-> t.h, mi |-> t.mi,
             s |-> 0, tz |-> "UTC"])
    ELSE Err(ProviderError("ParseDateTime", "Failed to parse datetime"))

PortoLocation == [name |-> "Porto", region |-> "Porto", country |-> "Portugal"]
BlankLocation == [name |-> "", region |-> "", country |-> ""]

CurrentBody(stamp) ==
    [shape |-> "current", location |-> PortoLocation,
     current |-> [last_updated |-> stamp, temp_c |-> 161, humidity |-> 770,
                  pressure_mb |-> 10240, condition |-> "Partly cloudy",
                  wind_kph |-> 220, wind_degree |-> 1500]]

HourEntry(stamp, n) ==
    [time |-> stamp, temp_c |-> 100 + n, wind_kph |-> 50 + n,
     wind_degree |-> 900 + n, humidity |-> 600 + n, pressure_mb |-> 10100 + n,
     condition |-> "Mist"]

DayEntry(n, hours) ==
    [day |-> [avgtemp_c |-> 140 + n, avghumidity |-> 700 + n,
              maxwind_kph |-> 300 + n, condition |-> "Sunny"],
     hour |-> hours]

HistoryBody(days) ==
    [shape |-> "history", location |-> PortoLocation, forecastday |-> days]

InvalidBody == [shape |-> "invalid"]

GoodStamp == StampText(2025, 12, 5, 17, 15)
LaterStamp == StampText(2025, 12, 6, 0, 0)
BadDayStamp == StampText(2025, 2, 30, 10, 0)

WeatherApiBodies ==
    { InvalidBody,
      CurrentBody(GoodStamp), CurrentBody(OtherStampText), CurrentBody(BadDayStamp),
      [CurrentBody(GoodStamp) EXCEPT !.location = BlankLocation],
      HistoryBody(<<>>),
      HistoryBody(<<DayEntry(1, <<>>)>>),
      HistoryBody(<<DayEntry(1, <<HourEntry(GoodStamp, 1)>>)>>),
      HistoryBody(<<DayEntry(1, <<HourEntry(OtherStampText, 1)>>)>>),
      HistoryBody(<<DayEntry(1, <<HourEntry(GoodStamp, 1), HourEntry(LaterStamp, 2)>>),
                    DayEntry(2, <<HourEntry(LaterStamp, 3)>>)>>) }

\* OpenWeather's WeatherResponse {name, dt, main.temp, weather[], wind.speed};
\* dt is None when the JSON has no dt field; speed is in tenths of m/s
OpenWeatherBody(dt, descriptions) ==
    [shape |-> "weather", name |-> "Porto", dt |-> dt, temp |-> 161,
     weather |-> descriptions, speed |-> 50]

\* DateTime::from_timestamp accepts the seconds chrono can represent
\* (years -262143 .. 262142); dt is held in units of 10^6 seconds
TimestampRange == (0 - 8334601)..8210266

OpenWeatherBodies ==
    { InvalidBody,
      OpenWeatherBody(Some(1764), <<"clear sky">>),
      OpenWeatherBody(Some(1764), <<"light rain", "mist">>),
      OpenWeatherBody(Some(1764), <<>>),
      OpenWeatherBody(Some(8210267), <<"clear sky">>),
      OpenWeatherBody(None, <<"clear sky">>),
      [OpenWeatherBody(Some(1764), <<"clear sky">>) EXCEPT !.speed = 0],
      [OpenWeatherBody(Some(1764), <<"clear sky">>) EXCEPT !.speed = 51],
      [OpenWeatherBody(Some(1764), <<"clear sky">>) EXCEPT !.speed = 1234] }

Statuses == {200, 404}

Responses(bodies) ==
    {[transport |-> "error", status |-> 0, body |-> InvalidBody]}
    \cup {[transport |-> "ok", status |-> st, body |-> b] :
             st \in Statuses, b \in bodies}

----------------------------------------------------------------------------
(* WeatherApi provider *)

\* decimal digits as ASCII codes, zero-padded
Digit(n) == 48 + n
Pad2(n) == <<Digit(n \div 10), Digit(n % 10)>>
Pad4(n) == <<Digit(n \div 1000), Digit((n \div 100) % 10),
            Digit((n \div 10) % 10), Digit(n % 10)>>

\* NaiveDate's Display for the years 0..9999: YYYY-MM-DD
FormatDate(date) == Pad4(date.y) \o <<45>> \o Pad2(date.mo) \o <<45>> \o Pad2(date.d)

\* get_weather without the location check
WeatherApiCheckNone(location) == Ok(location)

\* WeatherApi::get_weather, before the request: the location check
WeatherApiCheck(location) ==
    IF location = ""
    THEN Err(ProviderError("InvalidLocation", location))
    ELSE Ok(location)

\* get_weather asking for current conditions whatever the date
WeatherApiUrlAlwaysCurrent(p, location, date) ==
    [base |-> p.base_url, path |-> "v1/current.json", key |-> p.api_key,
     q |-> location, dt |-> None]

\* WeatherApi::get_weather: the URL, by endpoint and query parameters
WeatherApiUrl(p, location, date) ==
    IF date = None
    THEN [base |-> p.base_url, path |-> "v1/current.json", key |-> p.api_key,
          q |-> location, dt |-> None]
    ELSE [base |-> p.base_url, path |-> "v1/history.json", key |-> p.api_key,
          q |-> location, dt |-> Some(FormatDate(Unwrap(date)))]

\* WeatherApi::get_weather, after the request: transport error, then
\* error_for_status, then the JSON decoding; each failure is a Request error
WeatherApiReceive(resp) ==
    IF resp.transport # "ok" THEN Err(ProviderError("Request", "transport"))
    ELSE IF resp.status \notin 200..299 THEN Err(ProviderError("Request", "status"))
    ELSE IF resp.body.shape \notin {"current", "history"}
         THEN Err(ProviderError("Request", "decode"))
    ELSE Ok(resp.body)

\* the location labelled by name and region
LocationLabelRegion(location) == <<location.name, ", ", location.region>>

\* format!("{}, {}", location.name, location.country)
LocationLabel(location) == <<location.name, ", ", location.country>>

\* impl TryFrom<WeatherResponse> for WeatherData
WeatherDataTryFrom(b) ==
    IF b.shape = "current" THEN
        LET t == parse_local_datetime(b.current.last_updated)
        IN  IF ~t.ok THEN t
            ELSE Ok([location |-> LocationLabel(b.location),
                     datetime |-> t.val,
                     temp_c |-> b.current.temp_c,
                     humidity |-> b.current.humidity,
                     pressure |-> b.current.pressure_mb,
                     condition |-> b.current.condition,
                     wind_kph |-> b.current.wind_kph,
                     wind_deg |-> b.current.wind_degree])
    ELSE IF b.forecastday = <<>> THEN Panic("index out of bounds")
    ELSE LET forecast_day == b.forecastday[1]
             day == forecast_day.day
         IN  IF forecast_day.hour = <<>> THEN Panic("index out of bounds")
             ELSE LET first_hour == forecast_day.hour[1]
                      t == parse_local_datetime(first_hour.time)
                  IN  IF ~t.ok THEN t
                      ELSE Ok([location |-> LocationLabel(b.location),
                               datetime |-> t.val,
                               temp_c |-> day.avgtemp_c,
                               humidity |-> day.avghumidity,
                               pressure |-> first_hour.pressure_mb,
                               condition |-> day.condition,
                               wind_kph |-> first_hour.wind_kph,
                               wind_deg |-> first_hour.wind_degree])

\* WeatherApi::fetch, once the response is in: get_weather's error passes
\* through, a conversion error is wrapped again as ParseDateTime
WeatherApiFetch(resp) ==
    LET w == WeatherApiReceive(resp)
    IN  IF ~w.ok THEN w
        ELSE LET res == WeatherDataTryFrom(w.val)
             IN  IF IsErr(res)
                 THEN Err(ProviderError("ParseDateTime", ProviderErrorDisplay(res.err)))
                 ELSE res

----------------------------------------------------------------------------
(* OpenWeather provider *)

\* OpenWeather::fetch: the URL
OpenWeatherUrl(p, location) ==
    [base |-> p.base_url, path |-> "/data/2.5/weather", key |-> p.api_key,
     q |-> location, dt |-> None]

\* the wind speed passed on without conversion
MpsToKphUnconverted(speed) == speed * 10

\* wind.speed * 3.6: m/s to km/h.  speed is in tenths of m/s and the result
\* in hundredths of km/h, so that the product is held without rounding
MpsToKph(speed) == speed * 36

\* OpenWeather::fetch, once the response is in: transport and decoding
\* failures (a missing dt among them) are Request errors, the status is not
\* looked at; the timestamp is unwrapped and the first condition is indexed
OpenWeatherFetch(resp) ==
    IF resp.transport # "ok" THEN Err(ProviderError("Request", "transport"))
    ELSE IF resp.body.shape # "weather" THEN Err(ProviderError("Request", "decode"))
    ELSE IF resp.body.dt = None THEN Err(ProviderError("Request", "decode"))
    ELSE LET b == resp.body
         IN  IF Unwrap(b.dt) \notin TimestampRange
             THEN Panic("called Option::unwrap() on a None value")
             ELSE IF b.weather = <<>> THEN Panic("index out of bounds")
             ELSE Ok([location |-> b.name,
                      timestamp |-> Unwrap(b.dt),
                      temp_c |-> b.temp,
                      condition |-> b.weather[1],
                      wind_kph |-> Some(MpsToKph(b.speed))])

----------------------------------------------------------------------------
(* WeatherApp *)

\* run reporting a missing provider as a generic provider error
RunNotFoundAsProvider(provider_name) ==
    Err(AppError("Provider", <<"Provider '", provider_name, "' not found">>))

\* WeatherApp::run, the provider lookup failing
RunNotFound(provider_name) ==
    Err(AppError("InvalidProvider", <<"Provider '", provider_name, "' not found">>))

\* run wrapping the provider's error in the Provider variant
RunResultAsProvider(fetched) ==
    IF IsErr(fetched)
    THEN Err(AppError("Provider",
                      <<"Failed to fetch weather: ", ProviderErrorDisplay(fetched.err)>>))
    ELSE fetched

\* WeatherApp::run, the map_err on the provider's result
RunResult(fetched) ==
    IF IsErr(fetched)
    THEN Err(AppError("InvalidDate",
                      <<"Failed to fetch weather: ", ProviderErrorDisplay(fetched.err)>>))
    ELSE fetched

\* provider_exist answering yes for every name
ProviderExistAlways(reg, name) == TRUE

\* WeatherApp::provider_exist
provider_exist(reg, name) == IsSome(RegistryGet(reg, name))

----------------------------------------------------------------------------
(* Inputs *)

\* keys a settings file may hold under [providers]
ConfigKeys == {OPENWEATHER, WEATHERAPI, WeatherApiMixed}
\* api_key values: empty or not
FileApiKeys == {"", "file-key"}
EnvApiKeys == {"", "env-key"}

ProviderTables == UNION {[K -> FileApiKeys] : K \in SUBSET ConfigKeys}

SettingsFiles ==
    [default_provider : {None, Some(OPENWEATHER), Some(MOCK)},
     providers : {None} \cup {Some(t) : t \in ProviderTables}]

OPENWEATHER_API_KEY == to_uppercase(OPENWEATHER) \o API_KEY_SUFFIX
WEATHERAPI_API_KEY == to_uppercase(WEATHERAPI) \o API_KEY_SUFFIX

Environments ==
    {[v \in {DEFAULT_PROVIDER_VAR, OPENWEATHER_API_KEY, WEATHERAPI_API_KEY} |->
         IF v = DEFAULT_PROVIDER_VAR THEN d
         ELSE IF v = OPENWEATHER_API_KEY THEN ko ELSE kw] :
        d \in {None, Some(WeatherApiMixed)},
        ko \in {None} \cup {Some(k) : k \in EnvApiKeys},
        kw \in {None} \cup {Some(k) : k \in EnvApiKeys}}

ConfigureArgs == {OPENWEATHER, WEATHERAPI, WeatherApiMixed, MOCK}
Locations == {"", "London"}
Dates == {None, Some([y |-> 2025, mo |-> 12, d |-> 3]),
         Some([y |-> 987, mo |-> 3, d |-> 7])}

\* names and providers a test harness registers
UnitNames == {X, MOCK, EMPTY, WeatherApiMixed}
MockProviders == {[kind |-> "mock", api_key |-> "A", base_url |-> ""],
                  [kind |-> "mock", api_key |-> "B", base_url |-> ""]}

NoSettings == [default_provider |-> EMPTY, providers |-> EmptyMap]

----------------------------------------------------------------------------
(* The process: main, build_registry, commands::run *)

Init ==
    /\ pc = "start"
    /\ env \in Environments
    /\ file \in SettingsFiles
    /\ settings = NoSettings
    /\ registry = RegistryNew
    /\ pending = {}
    /\ startErr = None
    /\ calls = <<>>
    /\ lookups = <<>>
    /\ got = None
    /\ listed = None
    /\ call = None
    /\ requests = <<>>
    /\ out = None
    /\ runs = 1
    /\ tasks = EmptyMap

\* main: load_settings(..).map_err(AppError::Config)?
Load ==
    /\ pc = "start"
    /\ LET r == load_settings(file, env)
       IN  IF r.ok
           THEN /\ settings' = r.val
                /\ pc' = "loaded"
                /\ startErr' = startErr
           ELSE /\ settings' = settings
                /\ pc' = "failed"
                /\ startErr' = Some(r.err)
    /\ UNCHANGED <<tasks, env, file, registry, pending, calls, lookups, got, listed,
                   call, requests, out, runs>>

\* build_registry: the empty registry and the keys to visit
BuildStart ==
    /\ pc = "loaded"
    /\ registry' = RegistryNew
    /\ pending' = DOMAIN settings.providers
    /\ pc' = "building"
    /\ UNCHANGED <<tasks, env, file, settings, startErr, calls, lookups, got, listed,
                   call, requests, out, runs>>

\* build_registry: one iteration of the loop, on whichever key the map
\* yields next; a constructor error returns from the function and drops
\* the registry
BuildStep ==
    /\ pc = "building"
    /\ \E name \in pending :
        LET r == BuildEntry(settings, env, name)
        IN  IF ~r.ok
            THEN /\ pc' = "failed"
                 /\ startErr' = Some(r.err)
                 /\ registry' = RegistryNew
                 /\ pending' = {}
                 /\ calls' = calls
            ELSE /\ pc' = pc
                 /\ startErr' = startErr
                 /\ pending' = pending \ {name}
                 /\ IF IsSome(r.val)
                    THEN /\ registry' = RegistryRegister(registry, name, Unwrap(r.val))
                         /\ calls' = Append(calls, <<name, Unwrap(r.val)>>)
                    ELSE /\ registry' = registry
                         /\ calls' = calls
    /\ UNCHANGED <<tasks, env, file, settings, lookups, got, listed, call, requests,
                   out, runs>>

\* build_registry: after the loop; main then wraps the registry in
\* WeatherApp::new
BuildFinish ==
    /\ pc = "building"
    /\ pending = {}
    /\ \E order \in KeyOrders(registry) :
        LET r == BuildResult(registry, order)
        IN  IF r.ok
            THEN /\ pc' = "ready"
                 /\ startErr' = startErr
                 /\ registry' = registry
            ELSE /\ pc' = "failed"
                 /\ startErr' = Some(r.err)
                 /\ registry' = RegistryNew
    /\ UNCHANGED <<tasks, env, file, settings, pending, calls, lookups, got, listed,
                   call, requests, out, runs>>

\* commands::run, Configure with a provider argument
CmdConfigure(arg) ==
    /\ pc = "ready"
    /\ LET provider == to_lowercase(arg)
       IN  /\ lookups' = Append(lookups, provider)
           /\ IF provider_exist(registry, provider)
              THEN /\ settings' = [settings EXCEPT !.default_provider = provider]
                   /\ file' = save_settings(settings')
                   /\ out' = Some([kind |-> "saved", provider |-> provider,
                                   arg |-> arg])
              ELSE /\ settings' = settings
                   /\ file' = file
                   /\ out' = Some([kind |-> "not supported", provider |-> provider,
                                   arg |-> arg])
    /\ pc' = "done"
    /\ UNCHANGED <<tasks, env, registry, pending, startErr, calls, got, listed, call,
                   requests, runs>>

\* commands::run, Configure without argument: prints the default provider
\* and WeatherApp::list
CmdConfigureShow ==
    /\ pc = "ready"
    /\ \E order \in KeyOrders(registry) :
        /\ listed' = Some(RegistryList(registry, order))
        /\ out' = Some([kind |-> "show", default_provider |-> settings.default_provider,
                        available |-> RegistryList(registry, order)])
    /\ pc' = "done"
    /\ UNCHANGED <<tasks, env, file, settings, registry, pending, startErr, calls,
                   lookups, got, call, requests, runs>>

\* a request sent twice
SendRequestTwice(reqs, url) == reqs \o <<url, url>>

\* reqwest::get(&url): one HTTP request goes out
SendRequest(reqs, url) == Append(reqs, url)

\* the record of a WeatherApp::run call
RunCall(provider_name, location, date, provider, sent, fetched, result) ==
    [provider_name |-> provider_name, location |-> location, date |-> date,
     provider |-> provider, sent |-> sent, response |-> None,
     fetched |-> fetched, result |-> result]

\* WeatherApp::run up to the point where the provider awaits the HTTP
\* response: the call record and the request to send, if one is sent
RunBegin(reg, provider_name, location, date) ==
    LET found == RegistryGet(reg, provider_name)
    IN  IF found = None
        THEN [call |-> RunCall(provider_name, location, date, None, 0,
                               None, Some(RunNotFound(provider_name))),
              url |-> None]
        ELSE LET p == Unwrap(found)
                 checked == IF p.kind = "weatherapi"
                            THEN WeatherApiCheck(location) ELSE Ok(location)
                 url == IF p.kind = "weatherapi"
                        THEN WeatherApiUrl(p, location, date)
                        ELSE OpenWeatherUrl(p, location)
             IN  IF ~checked.ok
                 THEN [call |-> RunCall(provider_name, location, date, found, 0,
                                        Some(checked), Some(RunResult(checked))),
                       url |-> None]
                 ELSE [call |-> RunCall(provider_name, location, date, found, 1,
                                        None, None),
                       url |-> Some(url)]

\* the responses the vendor of provider p may give
ResponsesFor(p) ==
    Responses(IF p.kind = "weatherapi" THEN WeatherApiBodies ELSE OpenWeatherBodies)

\* the rest of WeatherApp::run: the provider's fetch completes on the
\* response and run returns
RunEnd(c, resp) ==
    LET p == Unwrap(c.provider)
        fetched == IF p.kind = "weatherapi"
                   THEN WeatherApiFetch(resp) ELSE OpenWeatherFetch(resp)
    IN  [c EXCEPT !.response = Some(resp),
                  !.fetched = Some(fetched),
                  !.result = Some(RunResult(fetched))]

\* commands::run, Get: WeatherApp::run with settings.default_provider, up
\* to the point where the provider awaits the HTTP response
CmdGet(address, date) ==
    /\ pc = "ready"
    /\ LET provider_name == settings.default_provider
           b == RunBegin(registry, provider_name, address, date)
       IN  /\ lookups' = Append(lookups, provider_name)
           /\ registry' = RegistryAfterGet(registry, provider_name)
           /\ call' = Some(b.call)
           /\ requests' = IF b.url = None THEN requests
                          ELSE SendRequest(requests, Unwrap(b.url))
           /\ pc' = IF b.call.result = None THEN "awaiting" ELSE "done"
    /\ UNCHANGED <<tasks, env, file, settings, pending, startErr, calls,
                   got, listed, out, runs>>

\* the vendor's response arrives: the provider's fetch completes and
\* WeatherApp::run returns
Receive ==
    /\ pc = "awaiting"
    /\ \E resp \in ResponsesFor(Unwrap(Unwrap(call).provider)) :
          call' = Some(RunEnd(Unwrap(call), resp))
    /\ pc' = "done"
    /\ UNCHANGED <<tasks, env, file, settings, registry, pending, startErr, calls,
                   lookups, got, listed, requests, out, runs>>

\* the program is started again; only the environment and the settings
\* file outlive a process
Restart ==
    /\ pc \in {"done", "failed"}
    /\ runs < MaxRuns
    /\ runs' = runs + 1
    /\ pc' = "start"
    /\ settings' = NoSettings
    /\ registry' = RegistryNew
    /\ pending' = {}
    /\ startErr' = None
    /\ calls' = <<>>
    /\ lookups' = <<>>
    /\ got' = None
    /\ listed' = None
    /\ call' = None
    /\ requests' = <<>>
    /\ out' = None
    /\ UNCHANGED <<tasks, env, file>>

Next ==
    \/ Load
    \/ BuildStart
    \/ BuildStep
    \/ BuildFinish
    \/ \E arg \in ConfigureArgs : CmdConfigure(arg)
    \/ CmdConfigureShow
    \/ \E address \in Locations, date \in Dates : CmdGet(address, date)
    \/ Receive
    \/ Restart

Spec == Init /\ [][Next]_vars

----------------------------------------------------------------------------
(* The registry driven directly, as the unit tests drive it *)

InitUnit ==
    /\ pc = "unit"
    /\ env = EmptyMap
    /\ file = [default_provider |-> None, providers |-> None]
    /\ settings = NoSettings
    /\ registry = RegistryNew
    /\ pending = {}
    /\ startErr = None
    /\ calls = <<>>
    /\ lookups = <<>>
    /\ got = None
    /\ listed = None
    /\ call = None
    /\ requests = <<>>
    /\ out = None
    /\ runs = 1
    /\ tasks = EmptyMap

\* reg.register(name, provider)
UnitRegister(name, provider) ==
    /\ pc = "unit"
    /\ Len(calls) < MaxCalls
    /\ registry' = RegistryRegister(registry, name, provider)
    /\ calls' = Append(calls, <<name, provider>>)
    /\ got' = None
    /\ listed' = None
    /\ UNCHANGED <<tasks, pc, env, file, settings, pending, startErr, lookups, call,
                   requests, out, runs>>

\* reg.get(name)
UnitGet(name) ==
    /\ pc = "unit"
    /\ got' = Some([name |-> name, result |-> RegistryGet(registry, name)])
    /\ UNCHANGED <<tasks, pc, env, file, settings, registry, pending, startErr, calls,
                   lookups, listed, call, requests, out, runs>>

\* reg.list_providers()
UnitList ==
    /\ pc = "unit"
    /\ \E order \in KeyOrders(registry) :
        listed' = Some(RegistryList(registry, order))
    /\ UNCHANGED <<tasks, pc, env, file, settings, registry, pending, startErr, calls,
                   lookups, got, call, requests, out, runs>>

NextUnit ==
    \/ \E name \in UnitNames, provider \in MockProviders : UnitRegister(name, provider)
    \/ \E name \in UnitNames : UnitGet(name)
    \/ UnitList

SpecUnit == InitUnit /\ [][NextUnit]_vars

----------------------------------------------------------------------------
(* One WeatherApp shared by concurrent callers.  run, provider_exist and   *)
(* list take &self; a run is suspended while its provider awaits the HTTP  *)
(* response, and other callers' operations run in between.                 *)

Callers == 1..MaxCallers

\* the registrations that built the shared registry
ConcRegistrations ==
    LET wa(k) == <<WEATHERAPI, WeatherApiNew(Some(k)).val>>
        ow(k) == <<OPENWEATHER, OpenWeatherNew(Some(k)).val>>
    IN  {<<>>, <<wa("file-key")>>, <<ow("env-key"), wa("file-key")>>,
         <<wa("file-key"), wa("env-key")>>}

\* the registry after the register calls of a log
RECURSIVE RegisterAll(_)
RegisterAll(log) ==
    IF log = <<>> THEN RegistryNew
    ELSE LET last == log[Len(log)]
         IN  RegistryRegister(RegisterAll(SubSeq(log, 1, Len(log) - 1)),
                              last[1], last[2])

ConcNames == {OPENWEATHER, WEATHERAPI}
ConcDates == {None, Some([y |-> 2025, mo |-> 12, d |-> 3])}

\* the responses a vendor gives in the concurrent runs
ConcResponses(p) ==
    {r \in ResponsesFor(p) :
        \/ r.transport = "error"
        \/ r.status = 404 /\ r.body = InvalidBody
        \/ r.status = 200 /\ r.body \in {CurrentBody(GoodStamp),
                                          OpenWeatherBody(Some(1764), <<"clear sky">>)}}

Idle == [op |-> "idle"]

InitConc ==
    /\ pc = "shared"
    /\ env = EmptyMap
    /\ file = [default_provider |-> None, providers |-> None]
    /\ settings = NoSettings
    /\ calls \in ConcRegistrations
    /\ registry = RegisterAll(calls)
    /\ pending = {}
    /\ startErr = None
    /\ lookups = <<>>
    /\ got = None
    /\ listed = None
    /\ call = None
    /\ requests = <<>>
    /\ out = None
    /\ runs = 1
    /\ tasks = [t \in Callers |-> Idle]

\* caller t enters app.run(provider_name, location, date) and reaches the
\* await of the HTTP response, or returns early
TaskRun(t, provider_name, location, date) ==
    /\ pc = "shared"
    /\ tasks[t] = Idle
    /\ LET b == RunBegin(registry, provider_name, location, date)
       IN  /\ registry' = RegistryAfterGet(registry, provider_name)
           /\ requests' = IF b.url = None THEN requests
                          ELSE SendRequest(requests, Unwrap(b.url))
           /\ tasks' = [tasks EXCEPT ![t] =
                           [op |-> "run", call |-> b.call, order |-> Len(requests')]]
    /\ lookups' = Append(lookups, provider_name)
    /\ UNCHANGED <<pc, env, file, settings, pending, startErr, calls,
                   got, listed, call, out, runs>>

\* the response to caller t's request arrives and its run returns
TaskReceive(t) ==
    /\ pc = "shared"
    /\ tasks[t].op = "run"
    /\ tasks[t].call.result = None
    /\ \E resp \in ConcResponses(Unwrap(tasks[t].call.provider)) :
          tasks' = [tasks EXCEPT ![t].call = RunEnd(tasks[t].call, resp)]
    /\ UNCHANGED <<pc, env, file, settings, registry, pending, startErr, calls,
                   lookups, got, listed, call, requests, out, runs>>

\* caller t calls app.provider_exist(name)
TaskExists(t, name) ==
    /\ pc = "shared"
    /\ tasks[t] = Idle
    /\ registry' = RegistryAfterGet(registry, name)
    /\ tasks' = [tasks EXCEPT ![t] =
                    [op |-> "exists", name |-> name,
                     result |-> provider_exist(registry, name)]]
    /\ lookups' = Append(lookups, name)
    /\ UNCHANGED <<pc, env, file, settings, pending, startErr, calls,
                   got, listed, call, requests, out, runs>>

\* caller t calls app.list()
TaskList(t) ==
    /\ pc = "shared"
    /\ tasks[t] = Idle
    /\ \E order \in KeyOrders(registry) :
          tasks' = [tasks EXCEPT ![t] =
                       [op |-> "list", result |-> RegistryList(registry, order)]]
    /\ UNCHANGED <<pc, env, file, settings, registry, pending, startErr, calls,
                   lookups, got, listed, call, requests, out, runs>>

NextConc ==
    \/ \E t \in Callers, name \in ConcNames, location \in Locations,
          date \in ConcDates : TaskRun(t, name, location, date)
    \/ \E t \in Callers : TaskReceive(t)
    \/ \E t \in Callers, name \in ConcNames : TaskExists(t, name)
    \/ \E t \in Callers : TaskList(t)

SpecConc == InitConc /\ [][NextConc]_vars

----------------------------------------------------------------------------
(* Properties *)

KnownVendors == {OPENWEATHER, WEATHERAPI}
Started == pc \in {"ready", "awaiting", "done"}

\* the provider of the latest register(n, .) in a call log, if any
LastRegistered(log, n) ==
    LET at == {i \in DOMAIN log : log[i][1] = n}
    IN  IF at = {} THEN None
        ELSE Some(log[CHOOSE i \in at : \A j \in at : j <= i][2])

RegisteredNames(log) == {log[i][1] : i \in DOMAIN log}

\* C1: after any sequence of register calls, get(n) returns the provider of
\* the most recent register(n, .) and returns None for a name that was
\* never registered.
C1_GetReturnsLatest ==
    got # None =>
        Unwrap(got).result = LastRegistered(calls, Unwrap(got).name)

\* C1 witness: the same name registered twice with different providers,
\* and get returning the second one.
C1_Witness ==
    /\ Len(calls) = 2
    /\ calls[1][1] = calls[2][1]
    /\ calls[1][2] # calls[2][2]
    /\ got = Some([name |-> calls[2][1], result |-> Some(calls[2][2])])

\* C2: list_providers returns exactly the registered names, each once, in
\* ascending order, whatever order the map yields its keys in; so repeated
\* calls on the same registry return the same sequence.
C2_ListSortedExact ==
    listed # None =>
        LET l == Unwrap(listed)
        IN  /\ \A i \in 1..(Len(l) - 1) : StrLess(l[i], l[i + 1])
            /\ {l[i] : i \in DOMAIN l} = RegisteredNames(calls)
            /\ Len(l) = Cardinality(RegisteredNames(calls))
            /\ \A o \in KeyOrders(registry) : RegistryList(registry, o) = l

\* C2 witness: two distinct names registered larger first, then listed
\* smaller first.
C2_Witness ==
    /\ Len(calls) = 2
    /\ StrLess(calls[2][1], calls[1][1])
    /\ listed = Some(<<calls[2][1], calls[1][1]>>)

\* C3: every key of the registry is lower-case and every lookup the
\* application issues uses the lower-cased name, so a requested name that
\* differs only in case from a registered one resolves to that provider.
C3_NamesNormalized ==
    /\ \A k \in DOMAIN registry : k = to_lowercase(k)
    /\ \A i \in DOMAIN lookups : lookups[i] = to_lowercase(lookups[i])
    /\ call # None =>
          (to_lowercase(Unwrap(call).provider_name) \in DOMAIN registry
              => Unwrap(call).provider # None)

\* C4: run returns InvalidProvider, naming the requested provider, exactly
\* when the name is not a key of the registry, and then no request is sent
\* and no fetch is made; configure's provider_exist check succeeds exactly
\* when the name is a key of the registry.
C4_InvalidProviderIffAbsent ==
    /\ call # None =>
          LET c == Unwrap(call)
              invalid == /\ c.result # None
                         /\ IsErr(Unwrap(c.result))
                         /\ Unwrap(c.result).err.kind = "InvalidProvider"
          IN  /\ invalid <=> c.provider_name \notin DOMAIN registry
              /\ invalid => /\ Unwrap(c.result).err.msg[2] = c.provider_name
                            /\ c.fetched = None
                            /\ c.sent = 0
                            /\ requests = <<>>
    /\ (out # None /\ Unwrap(out).kind \in {"saved", "not supported"}) =>
          (Unwrap(out).kind = "saved" <=> Unwrap(out).provider \in DOMAIN registry)

\* C4 witness: a run for a name that is not registered has returned
\* InvalidProvider.
C4_Witness ==
    /\ pc = "done"
    /\ call # None
    /\ Unwrap(call).provider = None
    /\ Unwrap(call).provider_name \notin DOMAIN registry
    /\ IsErr(Unwrap(Unwrap(call).result))
    /\ Unwrap(Unwrap(call).result).err.kind = "InvalidProvider"

\* C5: with the provider registered, run returns the provider's record
\* unchanged when fetch succeeds and an InvalidDate error carrying the
\* provider error's message when fetch fails; success stays success and
\* failure stays failure.  An empty location with the WeatherApi provider
\* surfaces InvalidLocation that way.
C5_RunWrapsFetch ==
    (call # None /\ Unwrap(call).fetched # None) =>
        LET c == Unwrap(call)
            f == Unwrap(c.fetched)
            r == Unwrap(c.result)
        IN  /\ IsOk(f) => r = Ok(f.val)
            /\ IsErr(f) => /\ IsErr(r)
                           /\ r.err.kind = "InvalidDate"
                           /\ r.err.msg[2] = ProviderErrorDisplay(f.err)
            /\ IsOk(r) <=> IsOk(f)
            /\ (Unwrap(c.provider).kind = "weatherapi" /\ c.location = "") =>
                  /\ IsErr(r)
                  /\ r.err.msg[2] = <<"Location '", "", "' is invalid or not found">>

\* C5 witness: a fetch that failed after its request (a provider error
\* wrapped by run).
C5_Witness ==
    /\ pc = "done"
    /\ call # None
    /\ Unwrap(call).sent = 1
    /\ IsErr(Unwrap(Unwrap(call).fetched))
    /\ IsErr(Unwrap(Unwrap(call).result))
    /\ Unwrap(Unwrap(call).result).err.kind = "InvalidDate"

\* C6: build_registry skips unrecognized names; on success the registry
\* holds exactly the known vendor names of settings.providers and is not
\* empty, and the listing shows exactly those; with no recognized entry
\* the build fails with "No valid providers configured"; a build only
\* fails for that reason or for a recognized provider's constructor.
C6_BuildRecognizedOnly ==
    LET recognized == (DOMAIN settings.providers) \cap KnownVendors
    IN  /\ \A k \in DOMAIN registry : k \in KnownVendors
        /\ Started => /\ DOMAIN registry = recognized
                      /\ DOMAIN registry # {}
        /\ (out # None /\ Unwrap(out).kind = "show") =>
              /\ {Unwrap(out).available[i] : i \in DOMAIN Unwrap(out).available} = recognized
              /\ Len(Unwrap(out).available) = Cardinality(recognized)
        /\ (pc = "failed" /\ Unwrap(startErr).kind = "MissingApiKey") =>
              IF recognized = {}
              THEN Unwrap(startErr).msg = <<"No valid providers configured">>
              ELSE \E n \in recognized : ~BuildEntry(settings, env, n).ok

\* C6 witness: a registry built with one provider from settings that also
\* hold an unrecognized name.
C6_Witness ==
    /\ pc = "ready"
    /\ WeatherApiMixed \in DOMAIN settings.providers
    /\ Cardinality(DOMAIN registry) = 1
    /\ Cardinality(DOMAIN settings.providers) = 2

C8_NoEmptyKeyProvider ==
    /\ \A k \in DOMAIN registry : registry[k].api_key # ""
    /\ \A i \in DOMAIN requests : requests[i].key # ""

\* C9: a WeatherApi fetch with an empty location returns InvalidLocation
\* for every date and issues no request.
C9_EmptyLocationNoRequest ==
    (/\ call # None
     /\ Unwrap(call).provider # None
     /\ Unwrap(Unwrap(call).provider).kind = "weatherapi"
     /\ Unwrap(call).location = "") =>
        /\ Unwrap(call).fetched = Some(Err(ProviderError("InvalidLocation", "")))
        /\ Unwrap(call).sent = 0
        /\ requests = <<>>
        /\ pc # "awaiting"

\* C9 witness: such a fetch made with a date.
C9_Witness ==
    /\ pc = "done"
    /\ call # None
    /\ Unwrap(call).provider # None
    /\ Unwrap(Unwrap(call).provider).kind = "weatherapi"
    /\ Unwrap(call).location = ""
    /\ Unwrap(call).date # None
    /\ requests = <<>>

\* C10: a known vendor whose key is set in the environment is registered at
\* startup, with the environment's key, even when settings.providers has
\* no entry for it.
C10_EnvKeyRegisters ==
    \A v \in KnownVendors :
        (Started /\ var(env, to_uppercase(v) \o API_KEY_SUFFIX) = Some("env-key")) =>
            /\ v \in DOMAIN registry
            /\ registry[v].api_key = "env-key"

\* what a configure command with an argument must have done in a step
\* that changes the settings file or prints the command's outcome
ConfigureEffect ==
    /\ file' # file =>
          /\ pc = "ready"
          /\ out' # None
          /\ Unwrap(out').kind = "saved"
          /\ file'.default_provider = Some(Unwrap(out').provider)
          /\ Unwrap(out').provider \in DOMAIN registry
          /\ file'.providers = Some(settings.providers)
    /\ (out' # out /\ out' # None /\ Unwrap(out').kind \in {"saved", "not supported"}) =>
          LET o == Unwrap(out')
          IN  /\ o.provider = to_lowercase(o.arg)
              /\ o.kind = "saved" <=> to_lowercase(o.arg) \in DOMAIN registry
              /\ o.kind = "saved" =>
                    /\ file'.default_provider = Some(to_lowercase(o.arg))
                    /\ settings'.default_provider = to_lowercase(o.arg)
              /\ o.kind = "not supported" =>
                    /\ file' = file
                    /\ settings' = settings

\* C11: configure with an argument saves default_provider = the lower-cased
\* argument exactly when that name is registered; otherwise it reports
\* "not supported" and writes nothing.  The settings file changes in no
\* other step, so the stored default_provider is always its initial value
\* or a name that was registered when it was saved.
C11_ConfigurePersistsIffRegistered == [][ConfigureEffect]_vars

\* C11 witness: a first process saved weatherapi, and a later configure
\* for an unregistered name left it in place.
C11_Witness ==
    /\ runs = 2
    /\ pc = "done"
    /\ out # None
    /\ Unwrap(out).kind = "not supported"
    /\ file.default_provider = Some(WEATHERAPI)

\* the provider kind of the run call in the state, if a provider was found
CallKind ==
    IF call # None /\ Unwrap(call).provider # None
    THEN Unwrap(Unwrap(call).provider).kind ELSE "none"

\* C12: for both providers a response with a non-2xx status never yields
\* a record: fetch returns a Request error whatever the body holds.
C12_NonSuccessStatusFails ==
    (/\ call # None
     /\ Unwrap(call).response # None
     /\ Unwrap(Unwrap(call).response).transport = "ok"
     /\ Unwrap(Unwrap(call).response).status \notin 200..299) =>
        /\ IsErr(Unwrap(Unwrap(call).fetched))
        /\ Unwrap(Unwrap(call).fetched).err.kind = "Request"

\* what a step may do to the requests and the result of the run call
RunRequestsStep ==
    /\ Len(requests') <= 1
    /\ call' # None =>
          LET c == Unwrap(call')
          IN  /\ Len(requests') = c.sent
              /\ c.provider = None => c.sent = 0
              /\ (c.response = None /\ c.fetched # None) => c.sent = 0
              /\ (c.response # None /\ Unwrap(c.response).transport # "ok") =>
                    /\ pc' = "done"
                    /\ c.sent = 1
                    /\ IsErr(Unwrap(c.fetched))
                    /\ Unwrap(c.fetched).err.kind = "Request"
                    /\ c.result = Some(RunResult(Unwrap(c.fetched)))
    /\ (call # None /\ Unwrap(call).result # None /\ call' # None) =>
          /\ call' = call
          /\ requests' = requests
    /\ (requests' # requests /\ requests' # <<>>) => pc = "ready"

\* C13: a run issues at most one request, none when the provider is
\* unknown or a precondition fails; after a transport error nothing more
\* is sent and the error is returned once, the call's result never
\* changing afterwards.
C13_AtMostOneRequest == [][RunRequestsStep]_vars

\* C13 witness: a run that ended on a transport error after its single
\* request.
C13_Witness ==
    /\ pc = "done"
    /\ call # None
    /\ Unwrap(call).response # None
    /\ Unwrap(Unwrap(call).response).transport = "error"
    /\ Len(requests) = 1
    /\ IsErr(Unwrap(Unwrap(call).result))

\* the response of the run call in the state, once received
CallResponse == Unwrap(Unwrap(call).response)
\* what the provider's fetch returned to the run call in the state
CallFetched == Unwrap(Unwrap(call).fetched)
Received == call # None /\ Unwrap(call).response # None

\* C15: a successful WeatherApi fetch returns as location the name and the
\* country of the response's location block joined by ", ", for the
\* current and the historical shape, whatever location the caller gave;
\* the location of a record is never empty.
C15_LocationFromVendor ==
    (CallKind = "weatherapi" /\ Received /\ IsOk(CallFetched)) =>
        LET b == CallResponse.body
        IN  /\ CallFetched.val.location = <<b.location.name, ", ", b.location.country>>
            /\ Len(CallFetched.val.location) = 3
            /\ CallFetched.val.location[2] = ", "

\* C15 witness: a successful historical fetch for the caller's "London"
\* on a response naming Porto, Portugal.
C15_Witness ==
    /\ CallKind = "weatherapi"
    /\ Received
    /\ IsOk(CallFetched)
    /\ CallResponse.body.shape = "history"
    /\ Unwrap(call).location = "London"
    /\ CallFetched.val.location = <<"Porto", ", ", "Portugal">>

\* the number written by a sequence of ASCII digits
RECURSIVE DigitsValue(_)
DigitsValue(t) ==
    IF t = <<>> THEN 0
    ELSE 10 * DigitsValue(SubSeq(t, 1, Len(t) - 1)) + (t[Len(t)] - 48)

\* text is date written as YYYY-MM-DD
IsYmdOf(text, date) ==
    /\ Len(text) = 10
    /\ text[5] = 45
    /\ text[8] = 45
    /\ \A i \in {1, 2, 3, 4, 6, 7, 9, 10} : text[i] \in 48..57
    /\ DigitsValue(SubSeq(text, 1, 4)) = date.y
    /\ DigitsValue(SubSeq(text, 6, 7)) = date.mo
    /\ DigitsValue(SubSeq(text, 9, 10)) = date.d

\* C16: the WeatherApi provider requests v1/current.json without dt
\* exactly when the date is absent and v1/history.json with dt = the date as
\* YYYY-MM-DD exactly when it is present; the request carries the
\* provider's API key and the caller's location as q.
C16_EndpointByDate ==
    (CallKind = "weatherapi" /\ requests # <<>>) =>
        LET u == requests[1]
            c == Unwrap(call)
        IN  /\ u.key = Unwrap(c.provider).api_key
            /\ u.q = c.location
            /\ c.date = None <=> u.path = "v1/current.json"
            /\ c.date # None <=> u.path = "v1/history.json"
            /\ c.date = None => u.dt = None
            /\ c.date # None => /\ u.dt # None
                                /\ IsYmdOf(Unwrap(u.dt), Unwrap(c.date))

\* C16 witness: a history request for a date with one-digit month and day.
C16_Witness ==
    /\ CallKind = "weatherapi"
    /\ requests # <<>>
    /\ requests[1].path = "v1/history.json"
    /\ Unwrap(call).date = Some([y |-> 987, mo |-> 3, d |-> 7])
    /\ requests[1].dt = Some(<<48, 57, 56, 55, 45, 48, 51, 45, 48, 55>>)

\* C17: from a historical response the record takes the time, the pressure
\* and the wind direction of the first day's first hour, and the average
\* temperature, average humidity, maximum wind speed and condition of the
\* first day.
C17_HistoryMapping ==
    (/\ CallKind = "weatherapi"
     /\ Received
     /\ IsOk(CallFetched)
     /\ CallResponse.body.shape = "history") =>
        LET day1 == CallResponse.body.forecastday[1]
            hour1 == day1.hour[1]
            rec == CallFetched.val
        IN  /\ Ok(rec.datetime) = parse_local_datetime(hour1.time)
            /\ rec.temp_c = day1.day.avgtemp_c
            /\ rec.humidity = day1.day.avghumidity
            /\ rec.pressure = hour1.pressure_mb
            /\ rec.wind_deg = hour1.wind_degree
            /\ rec.wind_kph = day1.day.maxwind_kph
            /\ rec.condition = day1.day.condition

\* an OpenWeather response that arrived with status 200 and has the fields
\* of the response type other than dt
OpenWeatherWellFormed ==
    /\ CallKind = "openweather"
    /\ Received
    /\ CallResponse.transport = "ok"
    /\ CallResponse.status = 200
    /\ CallResponse.body.shape = "weather"

\* C18: an OpenWeather response with an empty condition list yields a
\* record with condition "unknown"; with a non-empty list the condition is
\* the first description.
C18_EmptyConditionsUnknown ==
    (/\ OpenWeatherWellFormed
     /\ CallResponse.body.dt # None
     /\ Unwrap(CallResponse.body.dt) \in TimestampRange) =>
        /\ IsOk(CallFetched)
        /\ CallFetched.val.condition =
              IF CallResponse.body.weather = <<>> THEN "unknown"
              ELSE CallResponse.body.weather[1]

\* C19: an OpenWeather response whose timestamp is missing or cannot be
\* converted still yields a record, while a WeatherApi response whose
\* timestamp does not parse makes the fetch fail with ParseDateTime.
C19_TimestampAsymmetry ==
    /\ (/\ OpenWeatherWellFormed
        /\ CallResponse.body.weather # <<>>
        /\ \/ CallResponse.body.dt = None
           \/ Unwrap(CallResponse.body.dt) \notin TimestampRange) =>
          IsOk(CallFetched)
    /\ (/\ CallKind = "weatherapi"
        /\ Received
        /\ WeatherApiReceive(CallResponse).ok
        /\ \/ /\ CallResponse.body.shape = "current"
              /\ ~parse_local_datetime(CallResponse.body.current.last_updated).ok
           \/ /\ CallResponse.body.shape = "history"
              /\ CallResponse.body.forecastday # <<>>
              /\ CallResponse.body.forecastday[1].hour # <<>>
              /\ ~parse_local_datetime(CallResponse.body.forecastday[1].hour[1].time).ok) =>
          /\ IsErr(CallFetched)
          /\ CallFetched.err.kind = "ParseDateTime"

\* C20: a WeatherApi fetch returns a record or a ProviderError for every
\* response that deserializes, also a historical one without forecast days
\* or without hours; it never panics.
C20_WeatherApiNeverPanics ==
    (CallKind = "weatherapi" /\ Received) =>
        /\ ~IsPanic(CallFetched)
        /\ IsOk(CallFetched) \/ IsErr(CallFetched)

\* the registry that a log of register calls describes
RegistryOf(log) ==
    [n \in RegisteredNames(log) |-> Unwrap(LastRegistered(log, n))]

\* what caller t's run must hold, given only its arguments, the response it
\* received and the registry as constructed
RunExpected(task) ==
    LET c == task.call
        b == RunBegin(RegistryOf(calls), c.provider_name, c.location, c.date)
    IN  IF c.response = None THEN b.call
        ELSE RunEnd(b.call, Unwrap(c.response))

\* C14: once the facade is constructed, no interleaving of concurrent
\* run, provider_exist and list calls changes the registry's names, the
\* providers bound to them or their API key and base URL, and the result
\* of every run depends only on its own arguments and the response the
\* vendor gave to it.
C14_SharedStateImmutable ==
    pc = "shared" =>
        /\ DOMAIN registry = RegisteredNames(calls)
        /\ \A n \in DOMAIN registry : Some(registry[n]) = LastRegistered(calls, n)
        /\ \A t \in DOMAIN tasks :
              /\ tasks[t].op = "run" => tasks[t].call = RunExpected(tasks[t])
              /\ tasks[t].op = "exists" =>
                    (tasks[t].result <=> tasks[t].name \in RegisteredNames(calls))
              /\ tasks[t].op = "list" =>
                    /\ {tasks[t].result[i] : i \in DOMAIN tasks[t].result}
                          = RegisteredNames(calls)
                    /\ Len(tasks[t].result) = Cardinality(RegisteredNames(calls))

\* C14 witness: two runs of the same provider in flight at once, the one
\* that sent its request second already returned with a record while the
\* first still awaits its response.
C14_Witness ==
    /\ pc = "shared"
    /\ \E t, u \in DOMAIN tasks :
          /\ tasks[t].op = "run"
          /\ tasks[u].op = "run"
          /\ tasks[t].order = 1
          /\ tasks[u].order = 2
          /\ tasks[t].call.provider_name = tasks[u].call.provider_name
          /\ tasks[t].call.sent = 1
          /\ tasks[t].call.result = None
          /\ tasks[u].call.result # None
          /\ IsOk(Unwrap(tasks[u].call.result))

\* C21: the wind speed of a record returned by the OpenWeather provider is
\* the vendor's wind speed in m/s times 3.6 (5.0 m/s gives 18.0 km/h), and
\* a returned record always has it.  The vendor's speed is in tenths of
\* m/s and the record's in hundredths of km/h.
C21_WindSpeedTimes36 ==
    (CallKind = "openweather" /\ Received /\ IsOk(CallFetched)) =>
        LET speed == CallResponse.body.speed
            rec == CallFetched.val
        IN  /\ rec.wind_kph # None
            /\ 10 * Unwrap(rec.wind_kph) = 36 * (10 * speed)
            /\ speed = 50 => Unwrap(rec.wind_kph) = 1800

\* C21 witness: a record for a vendor speed of 5.1 m/s, whose speed in
\* km/h, 18.36, is not a whole number of tenths.
C21_Witness ==
    /\ CallKind = "openweather"
    /\ Received
    /\ IsOk(CallFetched)
    /\ CallResponse.body.speed = 51
    /\ CallFetched.val.wind_kph = Some(1836)

====
